---- MODULE Spec2Model ----
(***************************************************************************)
(* Model of src/src/sendtx-p2p.cpp: the sendtx-p2p command.                *)
(*                                                                         *)
(* sendtx_p2p::invoke runs on the main thread.  The callbacks              *)
(* handle_start, check_connection_count, send_tx and handle_send run on    *)
(* the threads of the async_client's pool (4 threads), signal_handler runs *)
(* whenever a registered signal arrives.  The only state they share is the *)
(* static bool `stopped`.                                                  *)
(*                                                                         *)
(* The protocol object (bc::protocol) and async_client::poll are not part  *)
(* of the source file; they are modelled from the contract the             *)
(* specification gives for them (one-shot channel subscription, one count  *)
(* callback per fetch, one start callback, asynchronous stop).             *)
(***************************************************************************)
EXTENDS Integers, Sequences, FiniteSets, TLC

\* ------------------------------------------------------------------ bounds
\* Largest --nodes option value tried.
MaxNodes == 3
\* Largest connection count a poll reports.
MaxCount == 3
\* Number of channels the session hands out in one run.
MaxChannels == 3
\* Number of fetch_connection_count calls that can be outstanding at once.
MaxPolls == 1
\* Number of outstanding handle_send callbacks that are counted.
MaxPendingSends == 1

\* ---------------------------------------------------------------- constants
\* prot.set_max_outbound(node_count * 6)
OutboundFactor == 6

Signals == {"SIGABRT", "SIGTERM", "SIGINT"}
\* The order in which invoke registers the handlers (lines 190-192).
SignalOrder == <<"SIGABRT", "SIGTERM", "SIGINT">>

VARIABLES
    \* --- program state
    stopped,        \* static bool stopped (line 34)
    pc,             \* position of the main thread inside invoke
    node_count,     \* get_nodes_option()
    max_outbound,   \* the session's outbound cap (0: not set)
    registered,     \* signals whose handler is signal_handler
    result,         \* invoke's return value ("none" until it returns)
    killed,         \* an unhandled signal has ended the process
    \* --- protocol session (contract)
    started,        \* "no" | "pending" | "ok" | "error": prot.start and its callback
    armed,          \* number of registered, unconsumed channel subscriptions
    handlers,       \* send_tx invocations handed to the pool and not yet finished
    delivered,      \* number of channels handed out so far (ids 1..delivered)
    pending_polls,  \* fetch_connection_count calls whose callback has not run
    pending_sends,  \* node->send calls whose handle_send has not run (counted up to
                    \* MaxPendingSends)
    \* --- what has happened so far (observation only)
    sends,          \* the channels node->send was called on, in order
    subscribe_calls,\* number of prot.subscribe_channel calls
    stop_calls,     \* number of prot.stop calls
    caught,         \* signal_handler has run
    chan_error,     \* send_tx was invoked with an error
    poll_error,     \* check_connection_count was invoked with an error
    poll_hit,       \* Len(sends) when a poll first reported count >= node_count, else -1
    send_failed     \* "no" | "yes": a handle_send reported an error | "sent_after": and
                    \* node->send has been called again since

vars == <<stopped, killed, pc, node_count, max_outbound, registered, result,
          started, armed, handlers, delivered, pending_polls, pending_sends,
          sends, subscribe_calls, stop_calls, caught, chan_error,
          poll_error, poll_hit, send_failed>>

prog_vars == <<stopped, killed, pc, node_count, max_outbound, registered, result>>
hist_vars == <<sends, subscribe_calls, stop_calls, caught, chan_error,
               poll_error, poll_hit, send_failed>>

Min(a, b) == IF a <= b THEN a ELSE b

Handler == [error : BOOLEAN, node : 0..(MaxChannels + 1), at : {"entry", "subscribe"}]

\* The process is executing invoke: it has neither returned nor been killed.
Running == ~killed /\ pc # "done"

Init ==
    /\ stopped = FALSE
    /\ pc = "set_max_outbound"
    /\ node_count \in 1..MaxNodes
    /\ max_outbound = 0
    /\ registered = {}
    /\ result = "none"
    /\ killed = FALSE
    /\ started = "no"
    /\ armed = 0
    /\ handlers = {}
    /\ delivered = 0
    /\ pending_polls = 0
    /\ pending_sends = 0
    /\ sends = <<>>
    /\ subscribe_calls = 0
    /\ stop_calls = 0
    /\ caught = FALSE
    /\ chan_error = FALSE
    /\ poll_error = FALSE
    /\ poll_hit = -1
    /\ send_failed = "no"

\* ------------------------------------------------------- the shared flag

\* A write of true to `stopped` (lines 69, 78, 96, 106).
SetStopped == stopped' = TRUE

\* `stopped` is a plain bool written on pool threads and in signal context
\* and read by the main thread (through poll's bool& parameter) without
\* synchronisation.  The read is of one byte and is repeated on every
\* iteration of the loop, so it yields the value before or the value after a
\* concurrent write: the two orders of the read step and the write step.

\* ------------------------------------------------------- prot.subscribe_channel

\* One more one-shot subscription is registered with the session.
subscribe_channel ==
    /\ armed' = armed + 1
    /\ subscribe_calls' = subscribe_calls + 1

\* ------------------------------------------------------- signal_handler

\* signal_handler that only logs the signal.
signal_handler_log_only(signal) ==
    /\ caught' = TRUE
    /\ UNCHANGED <<stopped, killed, pc, node_count, max_outbound, registered,
                   result, started, armed, handlers, delivered, pending_polls,
                   pending_sends, sends, subscribe_calls, stop_calls,
                   chan_error, poll_error, poll_hit, send_failed>>

\* signal_handler that also asks the session to stop.
signal_handler_stops_session(signal) ==
    /\ SetStopped
    /\ caught' = TRUE
    /\ stop_calls' = stop_calls + 1
    /\ UNCHANGED <<killed, pc, node_count, max_outbound, registered, result,
                   started, armed, handlers, delivered, pending_polls,
                   pending_sends, sends, subscribe_calls,
                   chan_error, poll_error, poll_hit, send_failed>>

\* signal_handler(signal): log, stopped = true.
signal_handler(signal) ==
    /\ SetStopped
    /\ caught' = TRUE
    /\ UNCHANGED <<killed, pc, node_count, max_outbound, registered, result,
                   started, armed, handlers, delivered, pending_polls,
                   pending_sends, sends, subscribe_calls, stop_calls,
                   chan_error, poll_error, poll_hit, send_failed>>

\* A signal arrives.  Once its handler is registered signal_handler runs;
\* before that the default disposition ends the process.
Signal(signal) ==
    /\ Running
    /\ IF signal \in registered
       THEN signal_handler(signal)
       ELSE /\ killed' = TRUE
            /\ UNCHANGED <<stopped, pc, node_count, max_outbound,
                           registered, result, started, armed, handlers,
                           delivered, pending_polls, pending_sends, hist_vars>>

\* ------------------------------------------------------- handle_start

\* handle_start that logs the failure and leaves the flag alone.
handle_start_log_only(error) ==
    /\ Running
    /\ started = "pending"
    /\ started' = IF error THEN "error" ELSE "ok"
    /\ UNCHANGED <<stopped, killed, pc, node_count, max_outbound, registered,
                   result, armed, handlers, delivered, pending_polls,
                   pending_sends, hist_vars>>

\* handle_start that assigns the outcome to the flag (stopped = bool(error)),
\* so that a successful start writes false.
handle_start_assigns(error) ==
    /\ Running
    /\ started = "pending"
    /\ started' = IF error THEN "error" ELSE "ok"
    /\ stopped' = error
    /\ UNCHANGED <<killed, pc, node_count, max_outbound, registered, result,
                   armed, handlers, delivered, pending_polls, pending_sends,
                   hist_vars>>

\* handle_start that registers a channel subscription once the session has
\* started, in addition to the one invoke registers.
handle_start_subscribes(error) ==
    /\ Running
    /\ started = "pending"
    /\ started' = IF error THEN "error" ELSE "ok"
    /\ IF error
       THEN SetStopped /\ UNCHANGED <<armed, subscribe_calls>>
       ELSE subscribe_channel /\ UNCHANGED stopped
    /\ UNCHANGED <<killed, pc, node_count, max_outbound, registered, result,
                   handlers, delivered, pending_polls, pending_sends, sends,
                   stop_calls, caught, chan_error, poll_error, poll_hit,
                   send_failed>>

\* handle_start(error): on error log and stopped = true; else log only.
handle_start(error) ==
    /\ Running
    /\ started = "pending"
    /\ started' = IF error THEN "error" ELSE "ok"
    /\ IF error THEN SetStopped ELSE UNCHANGED stopped
    /\ UNCHANGED <<killed, pc, node_count, max_outbound, registered, result,
                   armed, handlers, delivered, pending_polls, pending_sends,
                   hist_vars>>

\* ------------------------------------------------------- check_connection_count

\* The test of line 95 without the error operand.
StopCondition_ignores_error(error, connection_count, count) ==
    connection_count >= count

\* The test of line 95 with the comparison turned round.
StopCondition_flipped(error, connection_count, count) ==
    error \/ connection_count <= count

\* The test of line 95: error || connection_count >= node_count.
StopCondition(error, connection_count, count) ==
    error \/ connection_count >= count

\* check_connection_count(error, connection_count, node_count), run by the
\* pool as the completion handler of one fetch_connection_count call.
check_connection_count(error, connection_count) ==
    /\ Running
    /\ pending_polls > 0
    /\ pending_polls' = pending_polls - 1
    /\ IF StopCondition(error, connection_count, node_count)
       THEN SetStopped
       ELSE UNCHANGED stopped
    /\ poll_error' = (poll_error \/ error)
    /\ poll_hit' = IF poll_hit = -1 /\ ~error /\ connection_count >= node_count
                   THEN Len(sends)
                   ELSE poll_hit
    /\ UNCHANGED <<killed, pc, node_count, max_outbound, registered, result,
                   started, armed, handlers, delivered, pending_sends, sends,
                   subscribe_calls, stop_calls, caught, chan_error,
                   send_failed>>

\* ------------------------------------------------------- send_tx

\* send_tx runs on a pool thread, concurrently with the main thread, and has
\* two effects other threads can see in between: node->send (line 120) and
\* prot.subscribe_channel (lines 121-122).  It is modelled in two steps.

\* send_tx changed to consult the flag: once `stopped` is true the channel is
\* passed over without a send.
send_tx_skip_when_stopped(h) ==
    /\ Running
    /\ h \in handlers
    /\ h.at = "entry"
    /\ IF h.error
       THEN /\ SetStopped
            /\ chan_error' = TRUE
            /\ handlers' = handlers \ {h}
            /\ UNCHANGED <<sends, pending_sends, send_failed>>
       ELSE /\ sends' = IF stopped THEN sends ELSE Append(sends, h.node)
            /\ pending_sends' = IF stopped THEN pending_sends
                                ELSE Min(pending_sends + 1, MaxPendingSends)
            /\ send_failed' = IF send_failed = "yes" /\ ~stopped
                              THEN "sent_after" ELSE send_failed
            /\ handlers' = (handlers \ {h}) \cup {[h EXCEPT !.at = "subscribe"]}
            /\ UNCHANGED <<stopped, chan_error>>
    /\ UNCHANGED <<killed, pc, node_count, max_outbound, registered, result,
                   started, armed, delivered, pending_polls,
                   subscribe_calls, stop_calls, caught, poll_error, poll_hit>>

\* send_tx with the `return` of line 107 left out: after an error it goes on
\* to send on the (null) channel and to re-subscribe.
send_tx_no_return(h) ==
    /\ Running
    /\ h \in handlers
    /\ h.at = "entry"
    /\ IF h.error
       THEN /\ SetStopped
            /\ chan_error' = TRUE
       ELSE UNCHANGED <<stopped, chan_error>>
    /\ sends' = Append(sends, h.node)
    /\ pending_sends' = Min(pending_sends + 1, MaxPendingSends)
    /\ send_failed' = IF send_failed = "yes" THEN "sent_after" ELSE send_failed
    /\ handlers' = (handlers \ {h}) \cup {[h EXCEPT !.at = "subscribe"]}
    /\ UNCHANGED <<killed, pc, node_count, max_outbound, registered, result,
                   started, armed, delivered, pending_polls,
                   subscribe_calls, stop_calls, caught, poll_error, poll_hit>>

\* Lines 103-120: the error branch, or the send.
send_tx(h) ==
    /\ Running
    /\ h \in handlers
    /\ h.at = "entry"
    /\ IF h.error
       THEN /\ SetStopped
            /\ chan_error' = TRUE
            /\ handlers' = handlers \ {h}
            /\ UNCHANGED <<sends, pending_sends, send_failed>>
       ELSE /\ sends' = Append(sends, h.node)
            /\ pending_sends' = Min(pending_sends + 1, MaxPendingSends)
            /\ send_failed' = IF send_failed = "yes" THEN "sent_after" ELSE send_failed
            /\ handlers' = (handlers \ {h}) \cup {[h EXCEPT !.at = "subscribe"]}
            /\ UNCHANGED <<stopped, chan_error>>
    /\ UNCHANGED <<killed, pc, node_count, max_outbound, registered, result,
                   started, armed, delivered, pending_polls,
                   subscribe_calls, stop_calls, caught, poll_error, poll_hit>>

\* send_tx changed to re-subscribe only while `stopped` is false.
send_tx_subscribe_unless_stopped(h) ==
    /\ Running
    /\ h \in handlers
    /\ h.at = "subscribe"
    /\ IF stopped THEN UNCHANGED <<armed, subscribe_calls>> ELSE subscribe_channel
    /\ handlers' = handlers \ {h}
    /\ UNCHANGED <<prog_vars, started, delivered, pending_polls,
                   pending_sends, sends, stop_calls, caught,
                   chan_error, poll_error, poll_hit, send_failed>>

\* send_tx that registers the next subscription twice.
send_tx_subscribe_twice(h) ==
    /\ Running
    /\ h \in handlers
    /\ h.at = "subscribe"
    /\ armed' = armed + 2
    /\ subscribe_calls' = subscribe_calls + 2
    /\ handlers' = handlers \ {h}
    /\ UNCHANGED <<prog_vars, started, delivered, pending_polls,
                   pending_sends, sends, stop_calls, caught,
                   chan_error, poll_error, poll_hit, send_failed>>

\* Lines 121-122: re-subscribe, then return.
send_tx_subscribe(h) ==
    /\ Running
    /\ h \in handlers
    /\ h.at = "subscribe"
    /\ subscribe_channel
    /\ handlers' = handlers \ {h}
    /\ UNCHANGED <<prog_vars, started, delivered, pending_polls,
                   pending_sends, sends, stop_calls, caught,
                   chan_error, poll_error, poll_hit, send_failed>>

\* handle_send that treats a failed send like a setup failure.
handle_send_fatal(error) ==
    /\ Running
    /\ pending_sends > 0
    /\ pending_sends' = pending_sends - 1
    /\ send_failed' = IF error /\ send_failed = "no" THEN "yes" ELSE send_failed
    /\ IF error THEN SetStopped ELSE UNCHANGED stopped
    /\ UNCHANGED <<killed, pc, node_count, max_outbound, registered, result,
                   started, armed, handlers, delivered,
                   pending_polls, sends, subscribe_calls, stop_calls,
                   caught, chan_error, poll_error, poll_hit>>

\* The lambda handle_send (lines 112-118): logs the outcome, nothing else.
handle_send(error) ==
    /\ Running
    /\ pending_sends > 0
    /\ pending_sends' = pending_sends - 1
    /\ send_failed' = IF error /\ send_failed = "no" THEN "yes" ELSE send_failed
    /\ UNCHANGED <<prog_vars, started, armed, handlers, delivered,
                   pending_polls, sends, subscribe_calls, stop_calls,
                   caught, chan_error, poll_error, poll_hit>>

\* ------------------------------------------------------- the protocol session

\* The session fires one registered subscription: with a new channel, or
\* with an error and no channel.  The subscription is consumed and the
\* handler is handed to the pool.
ChannelReady(error) ==
    /\ Running
    /\ started # "no"
    /\ armed > 0
    /\ error \/ delivered < MaxChannels
    /\ armed' = armed - 1
    /\ delivered' = IF error THEN delivered ELSE delivered + 1
    /\ handlers' = handlers \cup
          {[error |-> error,
            node |-> IF error THEN 0 ELSE delivered + 1,
            at |-> "entry"]}
    /\ UNCHANGED <<prog_vars, started, pending_polls, pending_sends,
                   hist_vars>>

\* ------------------------------------------------------- sendtx_p2p::invoke

\* invoke that passes the target itself as the cap.
invoke_set_max_outbound_no_factor ==
    /\ pc = "set_max_outbound"
    /\ max_outbound' = node_count
    /\ pc' = "start"
    /\ UNCHANGED <<stopped, killed, node_count, registered, result, started,
                   armed, handlers, delivered, pending_polls, pending_sends,
                   hist_vars>>

\* Line 182: prot.set_max_outbound(node_count * 6).
invoke_set_max_outbound ==
    /\ pc = "set_max_outbound"
    /\ max_outbound' = node_count * OutboundFactor
    /\ pc' = "start"
    /\ UNCHANGED <<stopped, killed, node_count, registered, result, started,
                   armed, handlers, delivered, pending_polls, pending_sends,
                   hist_vars>>

\* Line 185: prot.start(handle_start).
invoke_start ==
    /\ pc = "start"
    /\ started' = "pending"
    /\ pc' = "subscribe"
    /\ UNCHANGED <<stopped, killed, node_count, max_outbound, registered,
                   result, armed, handlers, delivered, pending_polls,
                   pending_sends, hist_vars>>

\* invoke that registers the subscription only once the start callback has
\* reported success.
invoke_subscribe_after_start ==
    /\ pc = "subscribe"
    /\ started = "ok"
    /\ subscribe_channel
    /\ pc' = "signal"
    /\ UNCHANGED <<stopped, killed, node_count, max_outbound, registered,
                   result, started, handlers, delivered, pending_polls,
                   pending_sends, sends, stop_calls, caught,
                   chan_error, poll_error, poll_hit, send_failed>>

\* Lines 186-187: prot.subscribe_channel(bind(send_tx, ...)).
invoke_subscribe ==
    /\ pc = "subscribe"
    /\ subscribe_channel
    /\ pc' = "signal"
    /\ UNCHANGED <<stopped, killed, node_count, max_outbound, registered,
                   result, started, handlers, delivered, pending_polls,
                   pending_sends, sends, stop_calls, caught,
                   chan_error, poll_error, poll_hit, send_failed>>

\* Lines 190-192: signal(SIGABRT, ..), signal(SIGTERM, ..), signal(SIGINT, ..),
\* one call per step.
invoke_signal ==
    /\ pc = "signal"
    /\ LET n == Cardinality(registered) + 1 IN
         /\ registered' = registered \cup {SignalOrder[n]}
         /\ pc' = IF n = Len(SignalOrder) THEN "poll" ELSE "signal"
    /\ UNCHANGED <<stopped, killed, node_count, max_outbound, result,
                   started, armed, handlers, delivered, pending_polls,
                   pending_sends, hist_vars>>

\* client.poll(stopped, 2000, work), line 201: the loop test.  The loop runs
\* the action and sleeps while the flag reads false.
poll_test ==
    /\ pc = "poll"
    /\ pc' = IF stopped THEN "stop" ELSE "work"
    /\ UNCHANGED <<stopped, killed, node_count, max_outbound, registered,
                   result, started, armed, handlers, delivered, pending_polls,
                   pending_sends, hist_vars>>

\* The lambda `work` (lines 195-199): prot.fetch_connection_count(bind(
\* check_connection_count, _1, _2, node_count)); then the 2 s sleep.
work ==
    /\ pc = "work"
    /\ pending_polls < MaxPolls
    /\ pending_polls' = pending_polls + 1
    /\ pc' = "poll"
    /\ UNCHANGED <<stopped, killed, node_count, max_outbound, registered,
                   result, started, armed, handlers, delivered, pending_sends,
                   hist_vars>>

\* Line 203: prot.stop(ignore_stop).
invoke_stop ==
    /\ pc = "stop"
    /\ stop_calls' = stop_calls + 1
    /\ pc' = "return"
    /\ UNCHANGED <<stopped, killed, node_count, max_outbound, registered,
                   result, started, armed, handlers, delivered, pending_polls,
                   pending_sends, sends, subscribe_calls, caught, chan_error,
                   poll_error, poll_hit, send_failed>>

\* invoke that reports a start failure in its return value.
invoke_return_status ==
    /\ pc = "return"
    /\ result' = IF started = "error" THEN "failure" ELSE "okay"
    /\ pc' = "done"
    /\ UNCHANGED <<stopped, killed, node_count, max_outbound, registered,
                   started, armed, handlers, delivered, pending_polls,
                   pending_sends, hist_vars>>

\* Line 205: return console_result::okay.
invoke_return ==
    /\ pc = "return"
    /\ result' = "okay"
    /\ pc' = "done"
    /\ UNCHANGED <<stopped, killed, node_count, max_outbound, registered,
                   started, armed, handlers, delivered, pending_polls,
                   pending_sends, hist_vars>>

\* The main thread's next step, as long as no unhandled signal has ended the
\* process.
invoke ==
    /\ ~killed
    /\ \/ invoke_set_max_outbound
       \/ invoke_start
       \/ invoke_subscribe
       \/ invoke_signal
       \/ poll_test
       \/ work
       \/ invoke_stop
       \/ invoke_return

\* A count callback is run by the pool.
CountFetched == \E e \in BOOLEAN, c \in 0..MaxCount : check_connection_count(e, c)

Next ==
    \/ invoke
    \/ \E s \in Signals : Signal(s)
    \/ \E e \in BOOLEAN : handle_start(e)
    \/ CountFetched
    \/ \E h \in handlers : send_tx(h)
    \/ \E h \in handlers : send_tx_subscribe(h)
    \/ \E e \in BOOLEAN : handle_send(e)
    \/ \E e \in BOOLEAN : ChannelReady(e)

Spec == Init /\ [][Next]_vars

\* The main thread keeps running and
\* the session answers every fetch_connection_count.
FairSpec ==
    /\ Spec
    /\ WF_vars(invoke)
    /\ WF_vars(CountFetched)

TypeOK ==
    /\ stopped \in BOOLEAN
    /\ pc \in {"set_max_outbound", "start", "subscribe", "signal", "poll",
               "work", "stop", "return", "done"}
    /\ killed \in BOOLEAN
    /\ node_count \in 1..MaxNodes
    /\ registered \subseteq Signals
    /\ result \in {"none", "okay"}
    /\ started \in {"no", "pending", "ok", "error"}
    /\ armed \in Nat
    /\ handlers \subseteq Handler
    /\ delivered \in 0..MaxChannels
    /\ pending_polls \in 0..MaxPolls
    /\ pending_sends \in 0..MaxPendingSends
    /\ caught \in BOOLEAN
    /\ send_failed \in {"no", "yes", "sent_after"}
    /\ poll_hit \in -1..MaxChannels

\* ======================================================================
\* Properties
\* ======================================================================

\* send_tx invocations for a delivered channel that have not reached the send.
WaitingToSend == {h \in handlers : ~h.error /\ h.at = "entry"}
\* send_tx invocations that have sent and not yet re-subscribed.
WaitingToSubscribe == {h \in handlers : ~h.error /\ h.at = "subscribe"}
\* Number of send attempts made on channel c.
SendsTo(c) == Cardinality({i \in 1..Len(sends) : sends[i] = c})
\* 1 once invoke has made its own subscribe_channel call (lines 186-187).
InvokeSubscribed ==
    IF pc \in {"set_max_outbound", "start", "subscribe"} THEN 0 ELSE 1
\* send_tx invocations without error that have returned.
ReturnedOk == delivered - Cardinality(WaitingToSend) - Cardinality(WaitingToSubscribe)
\* send_tx invocations with error that have returned.
ReturnedError == IF chan_error THEN 1 ELSE 0

\* Every delivered channel whose handler has passed line 120 has exactly one
\* send attempt, the others have none yet, and nothing else is sent to.
EverySendOnce ==
    /\ \A i \in 1..Len(sends) : sends[i] \in 1..delivered
    /\ \A c \in 1..delivered :
          SendsTo(c) = IF \E h \in WaitingToSend : h.node = c THEN 0 ELSE 1
    /\ Len(sends) = delivered - Cardinality(WaitingToSend)

\* C1: single-send invariant.  For the N channels delivered to send_tx so
\* far, exactly one send attempt has been made on each channel whose handler
\* has run its send, none twice, none on anything else; once the handlers
\* have run, N channels have N send attempts.
C1_SingleSend == EverySendOnce

\* C1 witness: three channels delivered, handled to completion, three sends.
C1_Witness ==
    /\ delivered = 3
    /\ handlers = {}
    /\ sends = <<1, 2, 3>>

\* C2 as stated: whenever send_tx has been invoked and has returned, it has
\* re-armed the subscription: the subscribe_channel calls are invoke's one
\* plus one per returned send_tx invocation, with or without error.
C2_Original ==
    subscribe_calls = InvokeSubscribed + ReturnedOk + ReturnedError

\* C2 amended: whenever send_tx is invoked WITHOUT an error, it has re-armed
\* the subscription before it returns (one subscribe_channel call per such
\* invocation), so as long as no channel event carried an error a
\* subscription is armed whenever no handler is running, and channels
\* delivered after the first are still serviced.
C2_NoStarvation ==
    /\ subscribe_calls = InvokeSubscribed + ReturnedOk
    /\ (InvokeSubscribed = 1 /\ handlers = {} /\ ~chan_error) => armed = 1

\* C2 witness: a second channel was delivered after the first had been
\* processed, has been sent to, and the subscription is armed again.
C2_Witness ==
    /\ delivered = 2
    /\ sends = <<1, 2>>
    /\ handlers = {}
    /\ armed = 1

\* The start callback has reported an error.
StartFailed == started = "error"
\* prot.stop has been called.
StopCalled == stop_calls >= 1

\* C3 as stated: in a run where handle_start reports an error the Stop Flag
\* is set and subscribe_channel is never called.
C3_Original == StartFailed => (stopped /\ subscribe_calls = 0)

\* C3 amended: in a run where handle_start reports an error the Stop Flag is
\* set and handle_start itself arms no subscription; the subscription invoke
\* registers right after prot.start (lines 186-187) is armed whatever the
\* start callback reports, even when the callback has already reported the
\* error; and teardown follows: the poll loop is left and prot.stop is called
\* (unless an unhandled signal ends the process first).
C3_StartFailure ==
    /\ [](StartFailed => stopped)
    /\ [][(~StartFailed /\ StartFailed') =>
             (armed' = armed /\ subscribe_calls' = subscribe_calls)]_vars
    /\ [](StartFailed /\ InvokeSubscribed = 1 => subscribe_calls >= 1)
    /\ (StartFailed ~> (StopCalled \/ killed))

\* C3 witness: the start callback reported an error, the subscription of
\* lines 186-187 was armed all the same, and prot.stop was called with the
\* start failure as the only cause.
C3_Witness ==
    /\ StartFailed
    /\ subscribe_calls = 1
    /\ StopCalled
    /\ ~caught /\ ~chan_error /\ ~poll_error /\ poll_hit = -1

\* C4 as stated: once a poll has reported count >= node_count and the loop
\* has been left (prot.stop called), no further send attempt occurs.
C4_Original ==
    [][(poll_hit # -1 /\ StopCalled) => sends' = sends]_vars

\* C4 amended: once a poll has reported count >= node_count and the loop has
\* been left (prot.stop called), invoke issues no further count poll and
\* does not call prot.stop again; send_tx does not consult the Stop Flag, so
\* send attempts still occur after prot.stop, but only on a channel whose
\* event the session has delivered without error and that has not been sent
\* to yet.
C4_StopOnTarget ==
    [][(poll_hit # -1 /\ StopCalled) =>
         /\ pending_polls' <= pending_polls
         /\ stop_calls' = stop_calls
         /\ sends' # sends =>
               \E h \in WaitingToSend :
                    /\ SendsTo(h.node) = 0
                    /\ sends' = Append(sends, h.node)]_vars

\* C4 witness: the target was reached, prot.stop was called, and the send on
\* the third channel was made after that.
C4_Witness ==
    /\ poll_hit = 2
    /\ StopCalled
    /\ pc = "return"
    /\ sends = <<1, 2, 3>>
    /\ ~caught /\ ~chan_error /\ ~poll_error /\ ~StartFailed

\* C5: stop on signal.  A signal whose handler is registered sets the Stop
\* Flag, and once all three handlers are registered a caught signal leads to
\* the poll loop being left and prot.stop being called.
C5_StopOnSignal ==
    /\ [](caught => stopped)
    /\ [][\A s \in Signals : (s \in registered /\ Signal(s)) => stopped']_vars
    /\ ((caught /\ registered = Signals) ~> StopCalled)

\* C5 witness: a signal was the only reason to stop, and prot.stop was called.
C5_Witness ==
    /\ caught
    /\ StopCalled
    /\ ~chan_error /\ ~poll_error /\ poll_hit = -1 /\ ~StartFailed

\* C6: poll failure stops the run.  Once a count poll has completed with an
\* error the Stop Flag is set and stays set, whatever node_count and the
\* reported count are, and the poll loop is then left and prot.stop called.
C6_PollFailureStops ==
    /\ [](poll_error => stopped)
    /\ (poll_error ~> StopCalled)

\* C6 witness: with the largest target, a poll error was the only reason to
\* stop (no poll ever reported count >= node_count), and prot.stop was called.
C6_Witness ==
    /\ poll_error
    /\ node_count = MaxNodes
    /\ StopCalled
    /\ ~caught /\ ~chan_error /\ poll_hit = -1 /\ started = "ok"

\* C7: the Stop Flag is set-once.  It is false initially and no step of any
\* handler or of invoke takes it from true to false.
C7_SetOnce ==
    /\ ~stopped
    /\ [][stopped => stopped']_vars

\* C7 witness: the flag is true after a signal, and the start callback
\* (without error), a count poll below the target and a channel handler have
\* all run.
C7_Witness ==
    /\ stopped
    /\ caught
    /\ started = "ok"
    /\ Len(sends) >= 1
    /\ ~chan_error /\ ~poll_error /\ poll_hit = -1
    /\ pc = "stop"

\* The only thing that has happened that sets the Stop Flag is a count poll.
OnlyPollCause == ~caught /\ ~StartFailed /\ ~chan_error

\* C8: teardown is never initiated before the Stop Flag is true.  prot.stop
\* is called at most once, and only with the flag true; when nothing but a
\* count poll can have set the flag, prot.stop is not called before a poll
\* result that stops; and with node_count = 3, three channels delivered and
\* sent to before the first poll that reports >= 3, exactly three sends
\* have been made when prot.stop is called.
C8_TeardownAfterStop ==
    /\ [](stop_calls <= 1)
    /\ [](StopCalled => stopped)
    /\ [](StopCalled /\ OnlyPollCause => (poll_error \/ poll_hit # -1))
    /\ [][(stop_calls' # stop_calls /\ node_count = 3 /\ poll_hit = 3
             /\ delivered = 3 /\ OnlyPollCause /\ ~poll_error) =>
            (stop_calls' = 1 /\ stopped /\ Len(sends) = 3)]_vars

\* C8 witness: the scenario.  node_count = 3, three sends made before the
\* poll that reported the target, and then the one prot.stop call.
C8_Witness ==
    /\ node_count = 3
    /\ poll_hit = 3
    /\ sends = <<1, 2, 3>>
    /\ stop_calls = 1
    /\ OnlyPollCause /\ ~poll_error

\* C9: every run that returns returns console_result::okay, whatever set the
\* Stop Flag.
C9_ReturnsOkay == pc = "done" => result = "okay"

\* C9 witness: a run has returned after a start failure, a signal, a channel
\* setup failure, a poll failure and a poll at the target had all occurred.
C9_Witness ==
    /\ pc = "done"
    /\ StartFailed /\ caught /\ chan_error /\ poll_error /\ poll_hit # -1

\* C10: a send failure is non-fatal.  The handle_send call that reports an
\* error changes neither the Stop Flag nor the armed subscription nor the
\* handlers in flight, and after it every delivered channel still gets its
\* one send attempt.
C10_SendFailureNonFatal ==
    /\ [][(send_failed' # send_failed /\ send_failed = "no") =>
             (stopped' = stopped /\ armed' = armed /\ handlers' = handlers
              /\ sends' = sends)]_vars
    /\ [](send_failed # "no" => EverySendOnce)

\* C10 witness: after a send failure a later channel was sent to, the flag
\* is still false and the subscription is armed.
C10_Witness ==
    /\ send_failed = "sent_after"
    /\ ~stopped
    /\ armed = 1
    /\ handlers = {}

\* C11: at most one channel subscription is outstanding at any time.  The
\* number of registered, unconsumed subscriptions is 0 or 1, and none is
\* registered while a send_tx invocation is still running: the re-arm is
\* made only by the handler that consumed the previous subscription.
C11_OneSubscription ==
    /\ armed \in {0, 1}
    /\ armed + Cardinality(handlers) <= 1

\* C11 witness: a subscription is armed again after two channels have been
\* handled, while the main thread is in the poll loop.
C11_Witness ==
    /\ armed = 1
    /\ subscribe_calls = 3
    /\ pc = "work"
    /\ started = "ok"

\* C12: a channel event that fires without error while the Stop Flag is
\* already true is still processed: the send_tx step of its handler makes
\* the send on that channel, whatever the value of the flag.
C12_LateChannelStillSent ==
    [][\A h \in WaitingToSend :
          (stopped /\ h \notin handlers') =>
              (sends' = Append(sends, h.node) /\ stopped')]_vars

\* C12 witness: the flag was set by a poll before any send was made, and two
\* channels, the second delivered after the flag was set, have been sent to.
C12_Witness ==
    /\ poll_hit = 0
    /\ stopped
    /\ sends = <<1, 2>>

\* C13: poll decision.  A completed count poll sets the Stop Flag if and
\* only if it reported an error or count >= node_count; a poll without error
\* and with count < node_count leaves the flag as it was, and the poll loop
\* goes on.
C13_PollDecision ==
    [][\A e \in BOOLEAN, c \in 0..MaxCount :
          check_connection_count(e, c) =>
              /\ (e \/ c >= node_count) => stopped'
              /\ ~(e \/ c >= node_count) => stopped' = stopped
              /\ pc' = pc]_vars

\* C13 witness: with the largest target, a poll that reported
\* count >= node_count without error is the only thing that has set the
\* flag, and the main thread is still in the loop.
C13_Witness ==
    /\ stopped
    /\ poll_hit # -1
    /\ node_count = MaxNodes
    /\ ~poll_error /\ ~caught /\ ~StartFailed /\ ~chan_error
    /\ pc = "work"

\* C14: the first channel subscription is registered right after prot.start
\* is invoked, without waiting for the start callback: the step of lines
\* 186-187 can be taken whatever the state of the start callback, the
\* subscription exists from then on, and channels delivered while the
\* callback is still pending get their one send attempt like any other.
C14_FirstSubscriptionImmediate ==
    /\ (pc = "subscribe" /\ ~killed) => ENABLED invoke_subscribe
    /\ InvokeSubscribed = 1 => subscribe_calls >= 1
    /\ started = "pending" => EverySendOnce

\* C14 witness: a channel has been delivered, sent to and the subscription
\* re-armed while handle_start has not fired yet.
C14_Witness ==
    /\ started = "pending"
    /\ sends = <<1>>
    /\ handlers = {}
    /\ armed = 1

\* C15 as stated: after prot.stop has been called no subscribe_channel call
\* occurs.
C15_Original ==
    [][StopCalled => subscribe_calls' = subscribe_calls]_vars

\* C15 amended: after prot.stop has been called invoke makes no
\* subscribe_channel call, and neither an armed subscription nor a running
\* handler is cancelled; send_tx still re-arms the subscription at the end
\* of every invocation without error, exactly once, so re-arming ends only
\* when the session delivers no further channel.
C15_AfterStop ==
    [][StopCalled =>
         /\ subscribe_calls' # subscribe_calls =>
               \E h \in WaitingToSubscribe :
                    /\ handlers' = handlers \ {h}
                    /\ subscribe_calls' = subscribe_calls + 1
                    /\ armed' = armed + 1
         /\ \A h \in WaitingToSubscribe :
               h \notin handlers' => subscribe_calls' = subscribe_calls + 1
         /\ armed' < armed => Cardinality(handlers') = Cardinality(handlers) + 1
         /\ \A h \in handlers : h \in handlers' \/ h.at = "entry" \/ armed' > armed
      ]_vars

\* C15 witness: prot.stop has been called while a send_tx invocation has
\* sent and is about to re-subscribe.
C15_Witness ==
    /\ StopCalled
    /\ pc = "return"
    /\ WaitingToSubscribe # {}


\* C16: the signal handler and the readers of the flag are separated.  A
\* handled signal changes nothing but the flag (and the record that a signal
\* was caught): no start, subscribe, send, poll or stop.  The main thread
\* leaves the poll loop only at the loop test and only when the test finds
\* the flag true, and stays in the loop when it finds it false.  The pool
\* callbacks run whatever the value of the flag: handle_start, the count
\* callback and send_tx can be taken with the flag true as with it false, and
\* a send_tx invocation without error sends and leaves the flag as it is.
C16_FlagSeparation ==
    /\ [](Running =>
            /\ started = "pending" =>
                  \A e \in BOOLEAN : ENABLED handle_start(e)
            /\ pending_polls > 0 =>
                  \A e \in BOOLEAN, c \in 0..MaxCount :
                      ENABLED check_connection_count(e, c)
            /\ \A h \in handlers :
                  ENABLED (send_tx(h) \/ send_tx_subscribe(h)))
    /\ [][/\ \A s \in Signals :
                (s \in registered /\ Signal(s)) =>
                    /\ stopped'
                    /\ UNCHANGED <<killed, pc, node_count, max_outbound,
                                   registered, result, started, armed,
                                   handlers, delivered, pending_polls,
                                   pending_sends, sends, subscribe_calls,
                                   stop_calls>>
          /\ (pc \in {"poll", "work"} /\ pc' \notin {"poll", "work"}) =>
                (pc = "poll" /\ pc' = "stop" /\ stopped)
          /\ (pc = "poll" /\ pc' = "work") => ~stopped
          /\ \A h \in WaitingToSend :
                h \notin handlers' =>
                    (sends' = Append(sends, h.node) /\ stopped' = stopped)
         ]_vars

\* C16 witness: a signal has been handled and has set the flag while the
\* main thread is in the loop body; the session has not been stopped and the
\* subscription is still armed.
C16_Witness ==
    /\ caught
    /\ stopped
    /\ pc = "work"
    /\ stop_calls = 0
    /\ armed = 1
    /\ ~poll_error /\ poll_hit = -1 /\ ~chan_error /\ ~StartFailed

\* C17: the outbound cap is set exactly once, to the target node count
\* times 6, before prot.start is invoked; afterwards neither the cap nor the
\* target changes.
C17_CapSetOnce ==
    /\ [](pc = "set_max_outbound" => (max_outbound = 0 /\ started = "no"))
    /\ [](started # "no" => max_outbound = node_count * 6)
    /\ [][/\ node_count' = node_count
          /\ max_outbound' # max_outbound =>
                /\ pc = "set_max_outbound"
                /\ started = "no"
                /\ max_outbound' = node_count * 6
          /\ pc' = "set_max_outbound" => pc = "set_max_outbound"
         ]_vars

\* C17 witness: a run with the largest target has gone through start, the
\* loop and the return with the cap at 6 times the target.
C17_Witness ==
    /\ node_count = MaxNodes
    /\ max_outbound = MaxNodes * 6
    /\ started = "ok"
    /\ pc = "done"


\* C18: a channel event delivered with an error makes send_tx set the flag,
\* send nothing and register no subscription; from then on no subscription
\* is outstanding and no handler is running, so no further channel is
\* delivered, no further send is attempted and no subscription is registered
\* for the rest of the run.
C18_ChannelErrorEndsBroadcast ==
    /\ [](chan_error => (stopped /\ armed = 0 /\ handlers = {}))
    /\ [][/\ \A h \in handlers :
                (h.error /\ h \notin handlers') =>
                    /\ stopped' /\ chan_error'
                    /\ sends' = sends
                    /\ subscribe_calls' = subscribe_calls
                    /\ armed' = armed
                    /\ handlers' = handlers \ {h}
          /\ chan_error =>
                /\ sends' = sends
                /\ delivered' = delivered
                /\ subscribe_calls' = subscribe_calls
                /\ handlers' = handlers
         ]_vars

\* C18 witness: after one channel was sent to, the next channel event came
\* with an error; the run has ended with that single send.
C18_Witness ==
    /\ chan_error
    /\ started = "ok"
    /\ delivered = 1
    /\ sends = <<1>>
    /\ subscribe_calls = 2
    /\ pc = "done"

\* C19: whenever the flag is true one of its causes has occurred: a caught
\* signal, a start callback with error, a channel event with error, or a
\* count poll that failed or reported the target.  As long as none has
\* occurred the main thread has not left the poll loop and prot.stop has
\* not been called.
C19_StopHasCause ==
    /\ stopped =>
          (caught \/ StartFailed \/ chan_error \/ poll_error \/ poll_hit # -1)
    /\ ~(caught \/ StartFailed \/ chan_error \/ poll_error \/ poll_hit # -1) =>
          /\ pc \notin {"stop", "return", "done"}
          /\ stop_calls = 0
          /\ result = "none"

\* C19 witness: the session has been stopped and the only cause on record is
\* a channel event with error.
C19_Witness ==
    /\ stopped
    /\ StopCalled
    /\ chan_error
    /\ ~caught /\ ~StartFailed /\ ~poll_error /\ poll_hit = -1
    /\ send_failed = "yes"

\* C20: sends are issued in the order the channels were delivered (channels
\* are numbered by delivery).  The send to channel k is issued before the
\* next subscription is registered, and the handler for the next channel
\* starts only after that, so a handler that has not sent yet holds a
\* channel later than every channel sent to, and a handler that has sent
\* holds the channel sent to last.
C20_SendsInDeliveryOrder ==
    /\ \A i \in 1..Len(sends), j \in 1..Len(sends) :
          i < j => sends[i] < sends[j]
    /\ \A h \in WaitingToSend :
          \A i \in 1..Len(sends) : sends[i] < h.node
    /\ \A h \in WaitingToSubscribe :
          /\ Len(sends) >= 1
          /\ sends[Len(sends)] = h.node
          /\ armed = 0

\* C20 witness: three channels have been sent to in delivery order and the
\* third handler has not yet re-subscribed.
C20_Witness ==
    /\ sends = <<1, 2, 3>>
    /\ WaitingToSubscribe # {}
    /\ ~stopped

====
